---- MODULE Spec2Model ----
(***************************************************************************)
(* The diagram document model of excalidraw_creator.py: the element        *)
(* classes, the ExcalidrawCreator builder operations, the connector        *)
(* geometry and the serializer, as a state machine over one Document.      *)
(*                                                                         *)
(* A Python object is a record keyed by its instance attribute names, so   *)
(* hasattr(obj, "a") is  "a" \in DOMAIN obj.  The Document's list holds    *)
(* the objects themselves; a handle returned to the caller is the object's *)
(* position in that list (objects are created only by the builders and     *)
(* are never removed or moved, so the position names the object).          *)
(*                                                                         *)
(* Numbers that the code divides (geometry, points, focus) are exact       *)
(* rationals [n, d] in lowest terms: Python's "/" is modelled as exact     *)
(* division, without binary floating-point rounding.                       *)
(***************************************************************************)
EXTENDS Integers, Sequences, FiniteSets, TLC

VARIABLES
    elements,          \* ExcalidrawCreator.elements: the ordered element list
    background_color,  \* ExcalidrawCreator.background_color
    allocated,         \* number of element objects constructed so far
    uuid_calls,        \* number of uuid.uuid4() calls made so far
    rng,               \* state of the random module's generator
    written,           \* what the last call did to the output file (None: it opened none)
    open_files,        \* number of file objects opened by save and not yet closed
    open_calls,        \* number of open() calls the last call made
    input_pipe,        \* what the path input_pipe names: "absent", "fifo" or "file"
    output_pipe,       \* what the path output_pipe names
    process_record,    \* content of .pipe_handler_process.json (None: no such file)
    processes,         \* the operating system's process table, by pid
    last_started,      \* the pid Popen gave the command started last (None: none yet)
    python_code,       \* the generated code held by generate_python_script
    script_file,       \* content of the script file it wrote (None: not written)
    call,              \* the last operation called, with its arguments
    returned,          \* what that call returned (None when it raised)
    raised             \* the exception that call raised ("" when it returned)

\* The state of the Document and its output file, of the pipe handler, and of
\* the script generator.
document_vars == <<elements, background_color, allocated, uuid_calls, rng, written, open_files, open_calls>>
pipe_vars == <<input_pipe, output_pipe, process_record, processes, last_started>>
agent_vars == <<python_code, script_file>>

vars == <<document_vars, pipe_vars, agent_vars, call, returned, raised>>

-----------------------------------------------------------------------------
(* Bounds of the model *)

\* The builders given explicit geometry (add_rectangle .. add_arrow) are explored
\* while the Document holds fewer elements than MaxBuilt; add_curved_arrow and
\* the connectors, which read elements already there, while it holds fewer than
\* MaxElements.
MaxBuilt == 2
MaxElements == 3

\* group_elements calls are explored while the elements of the Document carry
\* fewer group tokens than this in total.
MaxGroupIds == 1

-----------------------------------------------------------------------------
(* Python values *)

\* None, and an Optional value that is present.
None == {}
Some(v) == {v}
TheValue(opt) == CHOOSE v \in opt : TRUE

Abs(i) == IF i < 0 THEN -i ELSE i

RECURSIVE GCD(_, _)
GCD(a, b) == IF b = 0 THEN a ELSE GCD(b, a % b)

\* The rational n/d (d > 0) in lowest terms.
Rat(n, d) == LET g == GCD(Abs(n), d) IN [n |-> n \div g, d |-> d \div g]
R(i) == [n |-> i, d |-> 1]

RAdd(a, b) == Rat(a.n * b.d + b.n * a.d, a.d * b.d)
RSub(a, b) == Rat(a.n * b.d - b.n * a.d, a.d * b.d)
RMul(a, b) == Rat(a.n * b.n, a.d * b.d)
RHalf(a) == Rat(a.n, 2 * a.d)
RLe(a, b) == a.n * b.d <= b.n * a.d
RMin(a, b) == IF RLe(a, b) THEN a ELSE b
RMax(a, b) == IF RLe(a, b) THEN b ELSE a
RAbs(a) == [n |-> Abs(a.n), d |-> a.d]

\* max(...) over a non-empty sequence of rationals.
RECURSIVE MaxOf(_)
MaxOf(s) == IF Len(s) = 1 THEN s[1] ELSE RMax(s[1], MaxOf(Tail(s)))

\* A point [px, py] of a points list, from integer coordinates.
Pt(px, py) == <<R(px), R(py)>>

\* A keyword parameter that takes its default whatever the caller passes.
Kw_IgnoresOverride(kwargs, k, default) == default

\* kwargs.get(k, default): a keyword argument, or the parameter's default.
Kw(kwargs, k, default) == IF k \in DOMAIN kwargs THEN kwargs[k] ELSE default

\* result[k] = v on a dict.
DictSet(d, k, v) == (k :> v) @@ d

\* str(uuid.uuid4()) for the i-th call: a token no earlier call produced.
\* (A collision of two random 122-bit tokens is not modelled.)
uuid4(i) == "uuid4-" \o ToString(i)

-----------------------------------------------------------------------------
(* The random module.  Its generator is deterministic from a state seeded   *)
(* from the operating system at import; the model keeps that structure: an *)
(* unknown initial state (Init) and a fixed step function.                 *)

RngStep(s) == ((5 * s) + 3) % 16

\* random.randint(lo, hi) and int(random.random() * scale), read off a state.
randint(lo, hi, s) == lo + ((s * 123456789) % (hi - lo + 1))
random_int(scale, s) == s * (scale \div 16)

\* The three draws of ExcalidrawElement.__init__, in order, and the state after.
\* updated = int(random.random() * 10000000000) exceeds the checker's 32-bit
\* integers: it is kept in tens (scale 1000000000).
Draws(s) ==
    [ seed          |-> randint(1, 2000000000, RngStep(s)),
      version_nonce |-> randint(1, 2000000000, RngStep(RngStep(s))),
      updated       |-> random_int(1000000000, RngStep(RngStep(RngStep(s)))) ]
RngAfterInit(s) == RngStep(RngStep(RngStep(s)))

-----------------------------------------------------------------------------
(* Element classes.  new is what the environment gives one construction:   *)
(* oid, the identity of the object allocated (Python's id(self), which no  *)
(* method reads or writes: the model carries it so that an object can be   *)
(* told from an equal one); rnd, the outcome of the three random draws of  *)
(* ExcalidrawElement.__init__; fresh, the token uuid4 returns if called.   *)

\* id or str(uuid.uuid4()): the id keyword is used unless it is None or "".
IdIsFalsy(kwargs) == "id" \notin DOMAIN kwargs \/ kwargs["id"] = ""

ExcalidrawElement_init(x, y, width, height, element_type, kwargs, new) ==
    [ oid              |-> new.oid,
      id               |-> IF IdIsFalsy(kwargs) THEN new.fresh ELSE kwargs["id"],
      type             |-> element_type,
      x                |-> x,
      y                |-> y,
      width            |-> width,
      height           |-> height,
      angle            |-> Kw(kwargs, "angle", R(0)),
      stroke_color     |-> Kw(kwargs, "stroke_color", "#1e1e1e"),
      background_color |-> Kw(kwargs, "background_color", "#ffffff"),
      fill_style       |-> Kw(kwargs, "fill_style", "solid"),
      stroke_width     |-> Kw(kwargs, "stroke_width", 2),
      stroke_style     |-> Kw(kwargs, "stroke_style", "solid"),
      roughness        |-> Kw(kwargs, "roughness", 1),
      opacity          |-> Kw(kwargs, "opacity", 100),
      seed             |-> new.rnd.seed,
      version          |-> 1,
      version_nonce    |-> new.rnd.version_nonce,
      is_deleted       |-> FALSE,
      bound_elements   |-> <<>>,
      updated          |-> new.rnd.updated,
      link             |-> None,
      locked           |-> FALSE ]

\* Text.__init__ storing the requested point as the top-left corner.
Text_init_NotCentered(x, y, text, font_family, font_size, text_align, vertical_align, kwargs, new) ==
    LET width == RMul(R(Len(text)), RMul(R(font_size), Rat(6, 10)))
        height == RMul(R(font_size), Rat(12, 10))
    IN  [ text           |-> text,
          font_family    |-> font_family,
          font_size      |-> font_size,
          text_align     |-> text_align,
          vertical_align |-> vertical_align,
          base_line      |-> 0 ]
        @@ ExcalidrawElement_init(x, y, width, height, "text", kwargs, new)

Text_init(x, y, text, font_family, font_size, text_align, vertical_align, kwargs, new) ==
    LET width == RMul(R(Len(text)), RMul(R(font_size), Rat(6, 10)))
        height == RMul(R(font_size), Rat(12, 10))
        x_centered == RSub(x, RHalf(width))
        y_centered == RSub(y, RHalf(height))
    IN  [ text           |-> text,
          font_family    |-> font_family,
          font_size      |-> font_size,
          text_align     |-> text_align,
          vertical_align |-> vertical_align,
          base_line      |-> 0 ]
        @@ ExcalidrawElement_init(x_centered, y_centered, width, height, "text", kwargs, new)

Rectangle_init(x, y, width, height, kwargs, new) ==
    [roundness |-> Some([type |-> 3])]
    @@ ExcalidrawElement_init(x, y, width, height, "rectangle", kwargs, new)

\* Diamond.__init__ with the rectangle's roundness descriptor.
Diamond_init_RoundnessThree(x, y, width, height, kwargs, new) ==
    [roundness |-> Some([type |-> 3])]
    @@ ExcalidrawElement_init(x, y, width, height, "diamond", kwargs, new)

Diamond_init(x, y, width, height, kwargs, new) ==
    [roundness |-> Some([type |-> 2])]
    @@ ExcalidrawElement_init(x, y, width, height, "diamond", kwargs, new)

Ellipse_init(x, y, width, height, kwargs, new) ==
    [roundness |-> Some([type |-> 2])]
    @@ ExcalidrawElement_init(x, y, width, height, "ellipse", kwargs, new)

\* Line.__init__ storing the signed differences as width and height.
Line_init_SignedSize(x1, y1, x2, y2, kwargs, new) ==
    LET x == RMin(x1, x2)
        y == RMin(y1, y2)
        width == RSub(x2, x1)
        height == RSub(y2, y1)
    IN  [ points |-> IF x = x1
                     THEN << <<R(0), R(0)>>, <<RSub(x2, x1), RSub(y2, y1)>> >>
                     ELSE << <<RSub(x1, x), RSub(y1, y)>>, <<RSub(x2, x), RSub(y2, y)>> >> ]
        @@ ExcalidrawElement_init(x, y, width, height, "line", kwargs, new)

Line_init(x1, y1, x2, y2, kwargs, new) ==
    LET x == RMin(x1, x2)
        y == RMin(y1, y2)
        width == RAbs(RSub(x2, x1))
        height == RAbs(RSub(y2, y1))
    IN  [ points |-> IF x = x1
                     THEN << <<R(0), R(0)>>, <<RSub(x2, x1), RSub(y2, y1)>> >>
                     ELSE << <<RSub(x1, x), RSub(y1, y)>>, <<RSub(x2, x), RSub(y2, y)>> >> ]
        @@ ExcalidrawElement_init(x, y, width, height, "line", kwargs, new)

\* Arrow.__init__ taking width and height as maximum minus minimum (the true
\* bounding box of the points).
Arrow_init_MaxMinusMin(x, y, points, kwargs, new) ==
    LET xs == [i \in DOMAIN points |-> points[i][1]]
        ys == [i \in DOMAIN points |-> points[i][2]]
        negated(s) == [i \in DOMAIN s |-> RSub(R(0), s[i])]
        width == IF points # <<>> THEN RAdd(MaxOf(xs), MaxOf(negated(xs))) ELSE R(0)
        height == IF points # <<>> THEN RAdd(MaxOf(ys), MaxOf(negated(ys))) ELSE R(0)
    IN  [ points           |-> points,
          start_binding    |-> Kw(kwargs, "start_binding", None),
          end_binding      |-> Kw(kwargs, "end_binding", None),
          start_arrowhead  |-> None,
          end_arrowhead    |-> Some("arrow"),
          elbowed          |-> Kw(kwargs, "elbowed", TRUE),
          roundness        |-> Kw(kwargs, "roundness", None),
          fixed_segments   |-> None,
          start_is_special |-> None,
          end_is_special   |-> None ]
        @@ ExcalidrawElement_init(x, y, width, height, "arrow", kwargs, new)

\* Arrow.__init__ storing start_binding as both bindings.
Arrow_init_EndIsStartBinding(x, y, points, kwargs, new) ==
    LET width == IF points # <<>> THEN MaxOf([i \in DOMAIN points |-> points[i][1]]) ELSE R(0)
        height == IF points # <<>> THEN MaxOf([i \in DOMAIN points |-> points[i][2]]) ELSE R(0)
    IN  [ points           |-> points,
          start_binding    |-> Kw(kwargs, "start_binding", None),
          end_binding      |-> Kw(kwargs, "start_binding", None),
          start_arrowhead  |-> None,
          end_arrowhead    |-> Some("arrow"),
          elbowed          |-> Kw(kwargs, "elbowed", TRUE),
          roundness        |-> Kw(kwargs, "roundness", None),
          fixed_segments   |-> None,
          start_is_special |-> None,
          end_is_special   |-> None ]
        @@ ExcalidrawElement_init(x, y, width, height, "arrow", kwargs, new)

\* The keyword parameters Arrow.__init__ names itself; the rest of kwargs goes
\* to ExcalidrawElement.__init__.
Arrow_init(x, y, points, kwargs, new) ==
    LET width == IF points # <<>> THEN MaxOf([i \in DOMAIN points |-> points[i][1]]) ELSE R(0)
        height == IF points # <<>> THEN MaxOf([i \in DOMAIN points |-> points[i][2]]) ELSE R(0)
    IN  [ points           |-> points,
          start_binding    |-> Kw(kwargs, "start_binding", None),
          end_binding      |-> Kw(kwargs, "end_binding", None),
          start_arrowhead  |-> None,
          end_arrowhead    |-> Some("arrow"),
          elbowed          |-> Kw(kwargs, "elbowed", TRUE),
          roundness        |-> Kw(kwargs, "roundness", None),
          fixed_segments   |-> None,
          start_is_special |-> None,
          end_is_special   |-> None ]
        @@ ExcalidrawElement_init(x, y, width, height, "arrow", kwargs, new)

-----------------------------------------------------------------------------
(* Serialization of one element: the dict each class's to_dict builds.     *)

ExcalidrawElement_to_dict(self) ==
    LET result ==
            [ id              |-> self.id,
              type            |-> self.type,
              x               |-> self.x,
              y               |-> self.y,
              width           |-> self.width,
              height          |-> self.height,
              angle           |-> self.angle,
              strokeColor     |-> self.stroke_color,
              backgroundColor |-> self.background_color,
              fillStyle       |-> self.fill_style,
              strokeWidth     |-> self.stroke_width,
              strokeStyle     |-> self.stroke_style,
              roughness       |-> self.roughness,
              opacity         |-> self.opacity,
              groupIds        |-> <<>>,
              frameId         |-> None,
              seed            |-> self.seed,
              version         |-> self.version,
              versionNonce    |-> self.version_nonce,
              isDeleted       |-> self.is_deleted,
              boundElements   |-> self.bound_elements,
              updated         |-> self.updated,
              link            |-> self.link,
              locked          |-> self.locked ]
    IN  IF "roundness" \in DOMAIN self
        THEN DictSet(result, "roundness", self.roundness)
        ELSE result

Text_to_dict(self) ==
    [ text          |-> self.text,
      fontFamily    |-> self.font_family,
      fontSize      |-> self.font_size,
      textAlign     |-> self.text_align,
      verticalAlign |-> self.vertical_align,
      baseline      |-> self.base_line ]
    @@ ExcalidrawElement_to_dict(self)

\* Line.to_dict without its lastCommittedPoint entry.
Line_to_dict_NoLastCommittedPoint(self) ==
    [ points |-> self.points ]
    @@ ExcalidrawElement_to_dict(self)

Line_to_dict(self) ==
    [ points             |-> self.points,
      lastCommittedPoint |-> None ]
    @@ ExcalidrawElement_to_dict(self)

Arrow_to_dict(self) ==
    LET result ==
            [ points             |-> self.points,
              lastCommittedPoint |-> None,
              startBinding       |-> self.start_binding,
              endBinding         |-> self.end_binding,
              startArrowhead     |-> self.start_arrowhead,
              endArrowhead       |-> self.end_arrowhead,
              elbowed            |-> self.elbowed,
              fixedSegments      |-> self.fixed_segments,
              startIsSpecial     |-> self.start_is_special,
              endIsSpecial       |-> self.end_is_special ]
            @@ ExcalidrawElement_to_dict(self)
    IN  IF self.roundness # None
        THEN DictSet(result, "roundness", self.roundness)
        ELSE result

\* element.to_dict(): the method of the element's class.  Each class passes its
\* own fixed element_type to the base constructor, so type names the class.
to_dict(element) ==
    CASE element.type = "text"  -> Text_to_dict(element)
      [] element.type = "line"  -> Line_to_dict(element)
      [] element.type = "arrow" -> Arrow_to_dict(element)
      [] OTHER                  -> ExcalidrawElement_to_dict(element)

\* ExcalidrawCreator.to_dict writing the default background colour.
ExcalidrawCreator_to_dict_DefaultBackground(els, bg) ==
    [ type     |-> "excalidraw",
      version  |-> 2,
      source   |-> "https://excalidraw.com",
      elements |-> [i \in DOMAIN els |-> to_dict(els[i])],
      appState |-> [ gridSize            |-> 20,
                     gridStep            |-> 5,
                     gridModeEnabled     |-> FALSE,
                     viewBackgroundColor |-> "#ffffff" ],
      files    |-> <<>> ]

\* ExcalidrawCreator.to_dict over a Document's element list and background.
ExcalidrawCreator_to_dict(els, bg) ==
    [ type     |-> "excalidraw",
      version  |-> 2,
      source   |-> "https://excalidraw.com",
      elements |-> [i \in DOMAIN els |-> to_dict(els[i])],
      appState |-> [ gridSize            |-> 20,
                     gridStep            |-> 5,
                     gridModeEnabled     |-> FALSE,
                     viewBackgroundColor |-> bg ],
      files    |-> <<>> ]

\* ExcalidrawCreator.to_json: json.dumps of the dict with the chosen indent.
\* The text is kept as the structure it encodes together with its indent.
ExcalidrawCreator_to_json(els, bg, pretty) ==
    [ json   |-> ExcalidrawCreator_to_dict(els, bg),
      indent |-> IF pretty THEN Some(2) ELSE None ]

-----------------------------------------------------------------------------
(* ExcalidrawCreator operations: the effect of each method on the Document  *)
(* and what it returns.  A handle is a position in the element list.        *)

\* A call that returns value.
Return(value) == returned' = Some(value) /\ raised' = ""

\* A call that leaves by raising exc, before it changed anything.
Raise(exc) ==
    /\ raised' = exc
    /\ returned' = None
    /\ UNCHANGED <<elements, allocated, uuid_calls, rng>>

\* What the environment gives the next construction.
New == [oid |-> allocated + 1, rnd |-> Draws(rng), fresh |-> uuid4(uuid_calls + 1)]

\* The side effects of one ExcalidrawElement.__init__(**kwargs): uuid4 is called
\* only when no usable id was passed; three random draws are made.
Constructed(kwargs) ==
    /\ allocated' = allocated + 1
    /\ uuid_calls' = IF IdIsFalsy(kwargs) THEN uuid_calls + 1 ELSE uuid_calls
    /\ rng' = RngAfterInit(rng)

\* add_element returning the element that was last before the append.
add_element_ReturnsPrevious(element) ==
    /\ elements' = Append(elements, element)
    /\ Return(Len(elements))

\* add_element inserting at the front of the list.
add_element_Prepends(element) ==
    /\ elements' = <<element>> \o elements
    /\ Return(1)

\* self.elements.append(element); return element
add_element(element) ==
    /\ elements' = Append(elements, element)
    /\ Return(Len(elements) + 1)

\* add_rectangle refusing a negative width or height.
add_rectangle_Validates(x, y, width, height, kwargs) ==
    IF width.n < 0 \/ height.n < 0
    THEN Raise("ValueError")
    ELSE /\ add_element(Rectangle_init(x, y, width, height, kwargs, New))
         /\ Constructed(kwargs)

add_rectangle(x, y, width, height, kwargs) ==
    /\ add_element(Rectangle_init(x, y, width, height, kwargs, New))
    /\ Constructed(kwargs)

add_diamond(x, y, width, height, kwargs) ==
    /\ add_element(Diamond_init(x, y, width, height, kwargs, New))
    /\ Constructed(kwargs)

add_ellipse(x, y, width, height, kwargs) ==
    /\ add_element(Ellipse_init(x, y, width, height, kwargs, New))
    /\ Constructed(kwargs)

add_text(x, y, text, font_family, font_size, text_align, vertical_align, kwargs) ==
    /\ add_element(Text_init(x, y, text, font_family, font_size, text_align, vertical_align,
                             kwargs, New))
    /\ Constructed(kwargs)

add_line(x1, y1, x2, y2, kwargs) ==
    /\ add_element(Line_init(x1, y1, x2, y2, kwargs, New))
    /\ Constructed(kwargs)

add_arrow(x, y, points, kwargs) ==
    /\ add_element(Arrow_init(x, y, points, kwargs, New))
    /\ Constructed(kwargs)

\* The keyword arguments add_curved_arrow passes to Arrow(...) itself; a kwargs
\* entry of the same name makes the call Arrow(..., **kwargs) a TypeError
\* ("got multiple values for keyword argument").
CurvedArrowKeywords == {"start_binding", "end_binding", "elbowed", "roundness"}

\* add_curved_arrow giving each binding the other end's gap.
add_curved_arrow_SwapsGaps(x, y, points, start_element, end_element, start_binding_gap, end_binding_gap, kwargs) ==
    LET start_binding ==
            IF start_element # None
            THEN Some([ elementId |-> elements[TheValue(start_element)].id,
                        focus     |-> Rat(1, 2),
                        gap       |-> end_binding_gap ])
            ELSE None
        end_binding ==
            IF end_element # None
            THEN Some([ elementId |-> elements[TheValue(end_element)].id,
                        focus     |-> Rat(1, 2),
                        gap       |-> start_binding_gap ])
            ELSE None
        arrow_kwargs ==
            [ start_binding |-> start_binding,
              end_binding   |-> end_binding,
              elbowed       |-> FALSE,
              roundness     |-> Some([type |-> 2]) ] @@ kwargs
    IN  IF CurvedArrowKeywords \cap DOMAIN kwargs # {}
        THEN Raise("TypeError")
        ELSE /\ add_element(Arrow_init(x, y, points, arrow_kwargs, New))
             /\ Constructed(kwargs)

\* start_element and end_element are Optional handles.
add_curved_arrow(x, y, points, start_element, end_element, start_binding_gap, end_binding_gap, kwargs) ==
    LET start_binding ==
            IF start_element # None
            THEN Some([ elementId |-> elements[TheValue(start_element)].id,
                        focus     |-> Rat(1, 2),
                        gap       |-> start_binding_gap ])
            ELSE None
        end_binding ==
            IF end_element # None
            THEN Some([ elementId |-> elements[TheValue(end_element)].id,
                        focus     |-> Rat(1, 2),
                        gap       |-> end_binding_gap ])
            ELSE None
        arrow_kwargs ==
            [ start_binding |-> start_binding,
              end_binding   |-> end_binding,
              elbowed       |-> FALSE,
              roundness     |-> Some([type |-> 2]) ] @@ kwargs
    IN  IF CurvedArrowKeywords \cap DOMAIN kwargs # {}
        THEN Raise("TypeError")
        ELSE /\ add_element(Arrow_init(x, y, points, arrow_kwargs, New))
             /\ Constructed(kwargs)

\* connect_elements_with_arrow binding both ends to the id the new arrow gets.
connect_elements_with_arrow_BindsItself(start_element, end_element, kwargs) ==
    LET s == elements[start_element]
        e == elements[end_element]
        start_x == RAdd(s.x, s.width)
        start_y == RAdd(s.y, RHalf(s.height))
        end_x == e.x
        end_y == RAdd(e.y, RHalf(e.height))
        mid_x == RHalf(RAdd(start_x, end_x))
        mid_y == start_y
        points == << <<R(0), R(0)>>,
                     <<RSub(mid_x, start_x), RSub(mid_y, start_y)>>,
                     <<RSub(end_x, start_x), RSub(end_y, start_y)>> >>
        start_binding == [elementId |-> New.fresh, focus |-> Rat(1, 2), gap |-> 1]
        end_binding == [elementId |-> New.fresh, focus |-> Rat(1, 2), gap |-> 1]
    IN  add_arrow(start_x, start_y, points,
                  [ start_binding |-> Some(start_binding),
                    end_binding   |-> Some(end_binding) ] @@ kwargs)

\* connect_elements_with_arrow taking the midpoint from the end anchor alone.
connect_elements_with_arrow_MidFromEnd(start_element, end_element, kwargs) ==
    LET s == elements[start_element]
        e == elements[end_element]
        start_x == RAdd(s.x, s.width)
        start_y == RAdd(s.y, RHalf(s.height))
        end_x == e.x
        end_y == RAdd(e.y, RHalf(e.height))
        mid_x == RHalf(end_x)
        mid_y == start_y
        points == << <<R(0), R(0)>>,
                     <<RSub(mid_x, start_x), RSub(mid_y, start_y)>>,
                     <<RSub(end_x, start_x), RSub(end_y, start_y)>> >>
        start_binding == [elementId |-> s.id, focus |-> Rat(1, 2), gap |-> 1]
        end_binding == [elementId |-> e.id, focus |-> Rat(1, 2), gap |-> 1]
    IN  add_arrow(start_x, start_y, points,
                  [ start_binding |-> Some(start_binding),
                    end_binding   |-> Some(end_binding) ] @@ kwargs)

connect_elements_with_arrow(start_element, end_element, kwargs) ==
    LET s == elements[start_element]
        e == elements[end_element]
        start_x == RAdd(s.x, s.width)
        start_y == RAdd(s.y, RHalf(s.height))
        end_x == e.x
        end_y == RAdd(e.y, RHalf(e.height))
        mid_x == RHalf(RAdd(start_x, end_x))
        mid_y == start_y
        points == << <<R(0), R(0)>>,
                     <<RSub(mid_x, start_x), RSub(mid_y, start_y)>>,
                     <<RSub(end_x, start_x), RSub(end_y, start_y)>> >>
        start_binding == [elementId |-> s.id, focus |-> Rat(1, 2), gap |-> 1]
        end_binding == [elementId |-> e.id, focus |-> Rat(1, 2), gap |-> 1]
    IN  add_arrow(start_x, start_y, points,
                  [ start_binding |-> Some(start_binding),
                    end_binding   |-> Some(end_binding) ] @@ kwargs)

connect_elements_with_curved_arrow(start_element, end_element, control_point_offset_x, control_point_offset_y, kwargs) ==
    LET s == elements[start_element]
        e == elements[end_element]
        start_x == RAdd(s.x, RHalf(s.width))
        start_y == RAdd(s.y, s.height)
        end_x == RAdd(e.x, RHalf(e.width))
        end_y == e.y
        points == << <<R(0), R(0)>>,
                     <<control_point_offset_x, control_point_offset_y>>,
                     <<RSub(end_x, start_x), RSub(end_y, start_y)>> >>
        start_binding == [elementId |-> s.id, focus |-> Rat(1, 2), gap |-> 4]
        end_binding == [elementId |-> e.id, focus |-> Rat(1, 2), gap |-> 9]
    IN  add_curved_arrow(start_x, start_y, points, Some(start_element), Some(end_element), 1, 1,
                         [ start_binding |-> Some(start_binding),
                           end_binding   |-> Some(end_binding) ] @@ kwargs)

\* The loop of group_elements over the handles given, in order.
RECURSIVE GroupLoop(_, _, _)
GroupLoop(els, handles, group_id) ==
    IF handles = <<>>
    THEN els
    ELSE LET element == els[Head(handles)]
             with_attr == IF "groupIds" \in DOMAIN element
                          THEN element
                          ELSE [groupIds |-> <<>>] @@ element
             grouped == [with_attr EXCEPT !.groupIds = Append(@, group_id)]
         IN  GroupLoop([els EXCEPT ![Head(handles)] = grouped], Tail(handles), group_id)

\* group_elements giving every grouped element a new version_nonce.
group_elements_BumpsVersionNonce(handles, group_id) ==
    LET token == IF group_id = None THEN uuid4(uuid_calls + 1) ELSE TheValue(group_id)
        grouped == GroupLoop(elements, handles, token)
    IN  /\ elements' = [i \in DOMAIN grouped |->
                            IF \E k \in DOMAIN handles : handles[k] = i
                            THEN [grouped[i] EXCEPT !.version_nonce = @ + 1]
                            ELSE grouped[i]]
        /\ uuid_calls' = IF group_id = None THEN uuid_calls + 1 ELSE uuid_calls
        /\ Return(token)
        /\ UNCHANGED <<allocated, rng>>

\* group_elements taking the token uuid4 returned last instead of a new one.
group_elements_ReusesToken(handles, group_id) ==
    LET token == IF group_id = None THEN uuid4(uuid_calls) ELSE TheValue(group_id)
    IN  /\ elements' = GroupLoop(elements, handles, token)
        /\ uuid_calls' = uuid_calls
        /\ Return(token)
        /\ UNCHANGED <<allocated, rng>>

\* group_id is an Optional token; uuid4 is called only when it is None.
group_elements(handles, group_id) ==
    LET token == IF group_id = None THEN uuid4(uuid_calls + 1) ELSE TheValue(group_id)
    IN  /\ elements' = GroupLoop(elements, handles, token)
        /\ uuid_calls' = IF group_id = None THEN uuid_calls + 1 ELSE uuid_calls
        /\ Return(token)
        /\ UNCHANGED <<allocated, rng>>

\* A value json.dumps cannot encode (any object that is not a dict, list, str,
\* number, bool or None), as a caller may pass for a paint keyword; the inputs
\* explored pass it as stroke_color only.
Unserializable == "<object object>"

\* json.dumps raises TypeError on a structure holding such a value.
JsonFails(els) == \E i \in DOMAIN els : els[i].stroke_color = Unserializable

\* open(filename, "w") returning a file object, and the close() that the with
\* statement's __exit__ makes on every path out of its body.
Opened(n) == n + 1
Closed(n) == n - 1

\* save opening and closing the file by hand: a failure between the two leaves
\* by the exception without reaching close().
save_ClosesOnlyOnSuccess(pretty, io) ==
    /\ UNCHANGED <<elements, allocated, uuid_calls, rng>>
    /\ open_calls' = 1
    /\ returned' = None
    /\ CASE io = "open fails" ->
                /\ raised' = "OSError"
                /\ written' = None
                /\ open_files' = open_files
         [] JsonFails(elements) ->
                /\ raised' = "TypeError"
                /\ written' = Some(<<>>)
                /\ open_files' = Opened(open_files)
         [] io = "write fails" ->
                /\ raised' = "OSError"
                /\ written' = Some(<<>>)
                /\ open_files' = Opened(open_files)
         [] OTHER ->
                /\ raised' = ""
                /\ written' = Some(<<ExcalidrawCreator_to_json(elements, background_color, pretty)>>)
                /\ open_files' = Closed(Opened(open_files))

\* save retrying once when the write fails; the second write succeeds.
save_RetriesWrite(pretty, io) ==
    /\ UNCHANGED <<elements, allocated, uuid_calls, rng>>
    /\ returned' = None
    /\ CASE io = "open fails" ->
                /\ raised' = "OSError"
                /\ written' = None
                /\ open_calls' = 1
                /\ open_files' = open_files
         [] JsonFails(elements) ->
                /\ raised' = "TypeError"
                /\ written' = Some(<<>>)
                /\ open_calls' = 1
                /\ open_files' = Closed(Opened(open_files))
         [] io = "write fails" ->
                /\ raised' = ""
                /\ written' = Some(<<ExcalidrawCreator_to_json(elements, background_color, pretty)>>)
                /\ open_calls' = 2
                /\ open_files' = Closed(Opened(Closed(Opened(open_files))))
         [] OTHER ->
                /\ raised' = ""
                /\ written' = Some(<<ExcalidrawCreator_to_json(elements, background_color, pretty)>>)
                /\ open_calls' = 1
                /\ open_files' = Closed(Opened(open_files))

\* save(filename, pretty).  io is the outcome the operating system gives this
\* call.  open() comes first; self.to_json(pretty) is evaluated inside the with
\* body, after open() truncated the file, and then written.  The program never
\* reads the file back, so the model keeps only what the call did to it: None
\* when open() failed, else the texts written after the truncation (none when
\* to_json or the write failed).  The with statement closes the file on every
\* path out of its body, and the exception goes on to the caller.
save(pretty, io) ==
    /\ UNCHANGED <<elements, allocated, uuid_calls, rng>>
    /\ open_calls' = 1
    /\ returned' = None
    /\ CASE io = "open fails" ->
                /\ raised' = "OSError"
                /\ written' = None
                /\ open_files' = open_files
         [] JsonFails(elements) ->
                /\ raised' = "TypeError"
                /\ written' = Some(<<>>)
                /\ open_files' = Closed(Opened(open_files))
         [] io = "write fails" ->
                /\ raised' = "OSError"
                /\ written' = Some(<<>>)
                /\ open_files' = Closed(Opened(open_files))
         [] OTHER ->
                /\ raised' = ""
                /\ written' = Some(<<ExcalidrawCreator_to_json(elements, background_color, pretty)>>)
                /\ open_files' = Closed(Opened(open_files))

\* A call other than save opens no file.
NoFileIO ==
    /\ written' = None
    /\ open_calls' = 0
    /\ UNCHANGED open_files

-----------------------------------------------------------------------------
(* pipe_handler.py: the named pipes, the process record file and the process *)
(* started on them.  Each command of the tool is one run of the script; the  *)
(* working directory and the process table persist between runs.            *)

\* The pids the operating system hands out and reuses.
MaxPid == 2
Pids == 1 .. MaxPid

\* A path exists (os.path.exists) whatever kind of file it names.
Exists(path) == path # "absent"

\* A process table entry: no process, a shell still performing its
\* redirections ("starting"), the command running, or a zombie.
NoProcess == [status |-> "gone", cmdline |-> ""]
IsRunning(pid) == pid \in Pids /\ processes[pid].status \in {"starting", "running"}

\* psutil.Process(pid): ValueError for a negative pid, NoSuchProcess when no
\* process has the pid, else the process.
psutil_Process(pid) ==
    IF pid < 0 THEN "ValueError"
    ELSE IF pid \notin Pids \/ processes[pid].status = "gone" THEN "NoSuchProcess"
    ELSE "Process"

\* The pid the handler works with: the argument, or, when none was given and
\* the record file exists, the pid read from it.
LoadedPid(pid) ==
    IF pid = None /\ process_record # None
    THEN Some(TheValue(process_record).pid)
    ELSE pid

\* "if pid:" is false for None and for 0.
Truthy(pid) == pid # None /\ TheValue(pid) # 0

PipeResult(value) == returned' = value /\ raised' = ""

setup_pipes ==
    /\ input_pipe' = IF Exists(input_pipe) THEN input_pipe ELSE "fifo"
    /\ output_pipe' = IF Exists(output_pipe) THEN output_pipe ELSE "fifo"
    /\ PipeResult(None)
    /\ UNCHANGED <<process_record, processes, last_started>>

\* start_command writing the record only when none exists yet.
start_command_KeepsFirstRecord(command, pid) ==
    IF command = None
    THEN /\ raised' = "SystemExit"
         /\ returned' = None
         /\ UNCHANGED pipe_vars
    ELSE /\ processes' = [processes EXCEPT ![pid] =
                             [ status  |-> "starting",
                               cmdline |-> TheValue(command) \o " < input_pipe > output_pipe" ]]
         /\ process_record' = IF process_record = None
                              THEN Some([pid |-> pid, command |-> TheValue(command)])
                              ELSE process_record
         /\ last_started' = Some(pid)
         /\ PipeResult(Some(pid))
         /\ UNCHANGED <<input_pipe, output_pipe>>

\* start_command(command): pid is the one Popen's process gets.  The record's
\* started_at time stamp is read by nothing and is left out.
start_command(command, pid) ==
    IF command = None
    THEN /\ raised' = "SystemExit"
         /\ returned' = None
         /\ UNCHANGED pipe_vars
    ELSE /\ processes' = [processes EXCEPT ![pid] =
                             [ status  |-> "starting",
                               cmdline |-> TheValue(command) \o " < input_pipe > output_pipe" ]]
         /\ process_record' = Some([pid |-> pid, command |-> TheValue(command)])
         /\ last_started' = Some(pid)
         /\ PipeResult(Some(pid))
         /\ UNCHANGED <<input_pipe, output_pipe>>

\* write_to_pipe: open('input_pipe', 'w') creates a regular file when the path
\* does not exist; every exception is caught.
write_to_pipe ==
    /\ input_pipe' = IF Exists(input_pipe) THEN input_pipe ELSE "file"
    /\ PipeResult(None)
    /\ UNCHANGED <<output_pipe, process_record, processes, last_started>>

\* read_from_pipe returns what it read within the timeout, "" when the path
\* could not be opened or nothing came.
read_from_pipe(output) ==
    /\ PipeResult(Some(IF Exists(output_pipe) THEN output ELSE ""))
    /\ UNCHANGED pipe_vars

\* The dict check_health builds, for a pid psutil accepts.
health_status(given) ==
    LET pid == LoadedPid(given)
        from_record == given = None /\ process_record # None
        process == /\ Truthy(pid)
                   /\ psutil_Process(TheValue(pid)) = "Process"
                   /\ processes[TheValue(pid)].status # "zombie"
        healthy == /\ Exists(input_pipe)
                   /\ Exists(output_pipe)
                   /\ (pid = None \/ process)
        status == [ input_pipe  |-> Exists(input_pipe),
                    output_pipe |-> Exists(output_pipe),
                    process     |-> process,
                    status      |-> IF healthy THEN "healthy" ELSE "unhealthy" ]
        with_command == IF from_record
                        THEN DictSet(status, "command", TheValue(process_record).command)
                        ELSE status
    IN  IF process
        THEN DictSet(DictSet(with_command, "pid", TheValue(pid)),
                     "process_cmdline", processes[TheValue(pid)].cmdline)
        ELSE with_command

\* check_health(pid): the ValueError of psutil.Process is not among the
\* exceptions the handler catches.
check_health(given) ==
    LET pid == LoadedPid(given)
    IN  /\ IF Truthy(pid) /\ psutil_Process(TheValue(pid)) = "ValueError"
           THEN raised' = "ValueError" /\ returned' = None
           ELSE PipeResult(Some(health_status(given)))
        /\ UNCHANGED pipe_vars

\* The process table after the termination step of cleanup.  terminate() only
\* sends SIGTERM: outcome is what became of the process by the time cleanup
\* returns ("running": it has not ended).  Any exception of psutil leads to
\* os.kill(pid, SIGKILL), which for pid -1 signals every process it may.
Terminated(pid, outcome) ==
    IF ~Truthy(pid)
    THEN processes
    ELSE LET p == TheValue(pid)
             Ended(entry) ==
                 IF entry.status \in {"starting", "running"}
                 THEN IF outcome = "zombie" THEN [entry EXCEPT !.status = "zombie"] ELSE NoProcess
                 ELSE entry
         IN  CASE psutil_Process(p) = "ValueError" ->
                     IF p = -1 THEN [q \in Pids |-> Ended(processes[q])] ELSE processes
               [] psutil_Process(p) = "NoSuchProcess" -> processes
               [] OTHER ->
                     IF outcome = "running"
                     THEN processes
                     ELSE [processes EXCEPT ![p] = Ended(@)]

\* cleanup(pid): every exception is caught; the record file and both paths are
\* unlinked where they exist.
cleanup(given, outcome) ==
    LET pid == LoadedPid(given)
    IN  /\ processes' = Terminated(pid, outcome)
        /\ process_record' = None
        /\ input_pipe' = "absent"
        /\ output_pipe' = "absent"
        /\ PipeResult(None)
        /\ UNCHANGED last_started

-----------------------------------------------------------------------------
(* excalidraw_agent.py, generate_python_script: the import statements of the *)
(* generated code are normalised and the code is written to the script file. *)
(* A text is the sequence of the pieces it is made of; every piece is one of *)
(* Pieces, and the two patterns searched for are made of the same pieces, so *)
(* a pattern occurs in the text exactly where its pieces occur in sequence.  *)

Pieces == { "from", "import", " ", "excalidraw", "_creator", "X" }

FromExcalidrawImport == <<"from", " ", "excalidraw", " ", "import">>
FromExcalidrawCreatorImport == <<"from", " ", "excalidraw", "_creator", " ", "import">>
ImportExcalidraw == <<"import", " ", "excalidraw">>
ImportExcalidrawCreator == <<"import", " ", "excalidraw", "_creator">>

\* text.startswith(prefix)
StartsWith(text, prefix) ==
    Len(prefix) <= Len(text) /\ SubSeq(text, 1, Len(prefix)) = prefix

\* old in text
Contains(text, old) ==
    \E i \in 1 .. (Len(text) - Len(old) + 1) : SubSeq(text, i, i + Len(old) - 1) = old

\* text.replace(old, new): every occurrence, left to right, none overlapping;
\* what was put in is not searched again.
RECURSIVE Replace(_, _, _)
Replace(text, old, new) ==
    IF text = <<>> THEN <<>>
    ELSE IF StartsWith(text, old)
    THEN new \o Replace(SubSeq(text, Len(old) + 1, Len(text)), old, new)
    ELSE <<Head(text)>> \o Replace(Tail(text), old, new)

\* The two replacements of generate_python_script, in order.
NormaliseImports(code) ==
    LET first == IF Contains(code, FromExcalidrawImport)
                 THEN Replace(code, FromExcalidrawImport, FromExcalidrawCreatorImport)
                 ELSE code
    IN  IF Contains(first, ImportExcalidraw)
        THEN Replace(first, ImportExcalidraw, ImportExcalidrawCreator)
        ELSE first

-----------------------------------------------------------------------------
(* The inputs explored.  Spec runs every operation of the Document on a few *)
(* inputs; SpecBuild runs the builders and connectors alone on more.        *)

NoKwargs == <<>>

\* Keyword overrides a caller passes: an explicit id, or the empty id.
IdKwargs == { [id |-> "a"], [id |-> ""] }

\* (x, y, width, height) of rectangles, diamonds and ellipses.
BoxA == <<0, 0, 100, 50>>
BoxB == <<200, 0, 100, 50>>
BoxC == <<10, 20, 30, 25>>
Boxes == { BoxA, BoxB, BoxC }

\* (x1, y1, x2, y2) of lines: every relative order of the two endpoints.
LineA == <<10, 10, 50, 40>>
Lines == { LineA, <<50, 40, 10, 10>>, <<10, 40, 50, 10>>, <<50, 10, 10, 40>>,
           <<10, 10, 10, 40>>, <<10, 40, 10, 10>> }

\* (x, y, text, font_size) of texts.
TextA == <<100, 100, "Hi", 20>>
Texts == { TextA, <<0, 0, "abc", 15>> }

\* (x, y, points) of arrows built directly: points with coordinates positive,
\* mixed and all negative.
ArrowA == <<0, 0, <<Pt(0, 0), Pt(50, 0), Pt(100, 0)>> >>
Arrows == { ArrowA, <<5, 5, <<Pt(0, 0), Pt(-30, 20)>> >>,
            <<0, 0, <<Pt(-10, -5), Pt(-30, -20)>> >> }

\* Control point offsets of curved connectors: the default and one other.
DefaultOffset == <<-30, 20>>
ControlOffsets == { DefaultOffset, <<40, 10>> }

\* Paint and state overrides, one field each, within the ranges of the format.
PaintKwargs ==
    { [stroke_color |-> "#ff0000"], [background_color |-> "#00ff00"],
      [fill_style |-> "hachure"], [stroke_width |-> 4], [stroke_style |-> "dashed"],
      [roughness |-> 0], [opacity |-> 50], [angle |-> R(1)] }

\* Overrides and geometries outside the ranges of the format.
OutOfRangeKwargs == { [opacity |-> 150], [opacity |-> -1], [roughness |-> 9] }
NegativeBox == <<0, 0, -10, -5>>
NegativeText == <<0, 0, "Hi", -20>>

\* Each geometry with no overrides, and the first geometry with each override.
WithKwargs(geometries, first, overrides) ==
    { <<g, NoKwargs>> : g \in geometries } \cup { <<first, kwargs>> : kwargs \in overrides }

Handles == 1 .. Len(elements)
OptionalHandles == {None} \cup { Some(h) : h \in Handles }

\* The non-empty lists of handles group_elements is given.
HandleLists == { <<h>> : h \in Handles } \cup { <<h1, h2>> : h1 \in Handles, h2 \in Handles }

CanBuild == Len(elements) < MaxBuilt
CanAdd == Len(elements) < MaxElements

RECURSIVE GroupIdCount(_)
GroupIdCount(els) ==
    IF els = <<>>
    THEN 0
    ELSE (IF "groupIds" \in DOMAIN Head(els) THEN Len(Head(els).groupIds) ELSE 0)
         + GroupIdCount(Tail(els))

CanGroup == GroupIdCount(elements) < MaxGroupIds

-----------------------------------------------------------------------------
(* The state machine: one action per call on the Document.  Each action is  *)
(* given the set of inputs it is explored on.                               *)

\* No pipe, no record file, no process.
PipesInit ==
    /\ input_pipe = "absent"
    /\ output_pipe = "absent"
    /\ process_record = None
    /\ processes = [p \in Pids |-> NoProcess]
    /\ last_started = None

\* The script generator holding one of the given texts, nothing written.
AgentInit(codes) ==
    /\ python_code \in codes
    /\ script_file = None

\* A Document as ExcalidrawCreator.__init__ leaves it.
DocumentInit(backgrounds, seeds) ==
    /\ elements = <<>>
    /\ background_color \in backgrounds
    /\ allocated = 0
    /\ uuid_calls = 0
    /\ rng \in seeds
    /\ written = None
    /\ open_files = 0
    /\ open_calls = 0
    /\ call = [op |-> "__init__", args |-> <<background_color>>]
    /\ returned = None
    /\ raised = ""

InitWith(backgrounds, seeds) ==
    /\ DocumentInit(backgrounds, seeds)
    /\ PipesInit
    /\ AgentInit({<<>>})

Called(op, args) == call' = [op |-> op, args |-> args]

CallAddRectangle(inputs) ==
    \E in \in inputs :
        LET b == in[1] kwargs == in[2]
        IN  /\ CanBuild
            /\ Called("add_rectangle", in)
            /\ add_rectangle(R(b[1]), R(b[2]), R(b[3]), R(b[4]), kwargs)
            /\ NoFileIO
        /\ UNCHANGED <<background_color, pipe_vars, agent_vars>>

CallAddDiamond(inputs) ==
    \E in \in inputs :
        LET b == in[1] kwargs == in[2]
        IN  /\ CanBuild
            /\ Called("add_diamond", in)
            /\ add_diamond(R(b[1]), R(b[2]), R(b[3]), R(b[4]), kwargs)
            /\ NoFileIO
        /\ UNCHANGED <<background_color, pipe_vars, agent_vars>>

CallAddEllipse(inputs) ==
    \E in \in inputs :
        LET b == in[1] kwargs == in[2]
        IN  /\ CanBuild
            /\ Called("add_ellipse", in)
            /\ add_ellipse(R(b[1]), R(b[2]), R(b[3]), R(b[4]), kwargs)
            /\ NoFileIO
        /\ UNCHANGED <<background_color, pipe_vars, agent_vars>>

\* font_family, text_align and vertical_align are left at their defaults.
CallAddText(inputs) ==
    \E in \in inputs :
        LET t == in[1] kwargs == in[2]
        IN  /\ CanBuild
            /\ Called("add_text", in)
            /\ add_text(R(t[1]), R(t[2]), t[3], "1", t[4], "center", "middle", kwargs)
            /\ NoFileIO
        /\ UNCHANGED <<background_color, pipe_vars, agent_vars>>

CallAddLine(inputs) ==
    \E in \in inputs :
        LET l == in[1] kwargs == in[2]
        IN  /\ CanBuild
            /\ Called("add_line", in)
            /\ add_line(R(l[1]), R(l[2]), R(l[3]), R(l[4]), kwargs)
            /\ NoFileIO
        /\ UNCHANGED <<background_color, pipe_vars, agent_vars>>

CallAddArrow(inputs) ==
    \E in \in inputs :
        LET a == in[1] kwargs == in[2]
        IN  /\ CanBuild
            /\ Called("add_arrow", in)
            /\ add_arrow(R(a[1]), R(a[2]), a[3], kwargs)
            /\ NoFileIO
        /\ UNCHANGED <<background_color, pipe_vars, agent_vars>>

\* start_binding_gap and end_binding_gap are left at their default, 1.0.
CallAddCurvedArrow(inputs, endpoints) ==
    \E in \in inputs, start_element \in endpoints, end_element \in endpoints :
        LET a == in[1] kwargs == in[2]
        IN  /\ CanAdd
            /\ Called("add_curved_arrow", <<a, start_element, end_element, kwargs>>)
            /\ add_curved_arrow(R(a[1]), R(a[2]), a[3], start_element, end_element, 1, 1, kwargs)
            /\ NoFileIO
        /\ UNCHANGED <<background_color, pipe_vars, agent_vars>>

\* add_curved_arrow with its two binding gaps given by the caller.
CallAddCurvedArrowWithGaps(inputs, endpoints, gaps) ==
    \E in \in inputs, start_element \in endpoints, end_element \in endpoints,
       start_binding_gap \in gaps, end_binding_gap \in gaps :
        LET a == in[1] kwargs == in[2]
        IN  /\ CanAdd
            /\ Called("add_curved_arrow",
                      <<a, start_element, end_element, kwargs, start_binding_gap, end_binding_gap>>)
            /\ add_curved_arrow(R(a[1]), R(a[2]), a[3], start_element, end_element,
                                start_binding_gap, end_binding_gap, kwargs)
            /\ NoFileIO
        /\ UNCHANGED <<background_color, pipe_vars, agent_vars>>

CallConnect(overrides) ==
    \E start_element \in Handles, end_element \in Handles, kwargs \in overrides :
        /\ CanAdd
        /\ Called("connect_elements_with_arrow", <<start_element, end_element, kwargs>>)
        /\ connect_elements_with_arrow(start_element, end_element, kwargs)
        /\ NoFileIO
        /\ UNCHANGED <<background_color, pipe_vars, agent_vars>>

CallConnectCurved(offsets, overrides) ==
    \E start_element \in Handles, end_element \in Handles, c \in offsets, kwargs \in overrides :
        /\ CanAdd
        /\ Called("connect_elements_with_curved_arrow", <<start_element, end_element, c, kwargs>>)
        /\ connect_elements_with_curved_arrow(start_element, end_element, R(c[1]), R(c[2]), kwargs)
        /\ NoFileIO
        /\ UNCHANGED <<background_color, pipe_vars, agent_vars>>

CallGroup(lists, tokens) ==
    \E handles \in lists, group_id \in tokens :
        /\ CanGroup
        /\ Called("group_elements", <<handles, group_id>>)
        /\ group_elements(handles, group_id)
        /\ NoFileIO
        /\ UNCHANGED <<background_color, pipe_vars, agent_vars>>

\* to_dict drawing a new seed for every element as it serializes.
CallToDict_Redraws ==
    /\ Called("to_dict", <<>>)
    /\ elements' = [i \in DOMAIN elements |->
                        [elements[i] EXCEPT !.seed = randint(1, 2000000000, RngStep(rng))]]
    /\ rng' = RngStep(rng)
    /\ Return(ExcalidrawCreator_to_dict(elements', background_color))
    /\ NoFileIO
    /\ UNCHANGED <<background_color, allocated, uuid_calls, pipe_vars, agent_vars>>

CallToDict ==
    /\ Called("to_dict", <<>>)
    /\ Return(ExcalidrawCreator_to_dict(elements, background_color))
    /\ NoFileIO
    /\ UNCHANGED <<elements, background_color, allocated, uuid_calls, rng, pipe_vars, agent_vars>>

CallToJson(pretties) ==
    \E pretty \in pretties :
        /\ Called("to_json", <<pretty>>)
        /\ IF JsonFails(elements)
           THEN raised' = "TypeError" /\ returned' = None
           ELSE Return(ExcalidrawCreator_to_json(elements, background_color, pretty))
        /\ NoFileIO
    /\ UNCHANGED <<elements, background_color, allocated, uuid_calls, rng, pipe_vars, agent_vars>>

CallSave(pretties) ==
    \E pretty \in pretties, io \in {"ok", "open fails", "write fails"} :
        /\ Called("save", <<pretty>>)
        /\ save(pretty, io)
        /\ UNCHANGED <<background_color, pipe_vars, agent_vars>>

\* Every operation of the Document.
Init == InitWith({"#ffffff"}, {0})

Next ==
    \/ CallAddRectangle({ <<BoxA, NoKwargs>> })
    \/ CallAddDiamond({ <<BoxC, NoKwargs>> })
    \/ CallAddEllipse({ <<BoxC, NoKwargs>> })
    \/ CallAddText({ <<TextA, NoKwargs>> })
    \/ CallAddLine({ <<LineA, NoKwargs>> })
    \/ CallAddArrow({ <<ArrowA, NoKwargs>> })
    \/ CallAddCurvedArrow({ <<ArrowA, NoKwargs>> }, {None, Some(1)} \cap OptionalHandles)
    \/ CallConnect({NoKwargs})
    \/ CallConnectCurved({DefaultOffset}, {NoKwargs})
    \/ CallGroup({ <<1>>, <<1, 2>> } \cap HandleLists, {None, Some("g")})
    \/ CallToDict
    \/ CallToJson(BOOLEAN)
    \/ CallSave({TRUE})

Spec == Init /\ [][Next]_vars

\* The builders and connectors alone, on more geometries and with id overrides.
InitBuild == InitWith({"#ffffff"}, {0})

NextBuild ==
    \/ CallAddRectangle(WithKwargs(Boxes, BoxA, IdKwargs))
    \/ CallAddDiamond(WithKwargs(Boxes, BoxA, IdKwargs))
    \/ CallAddEllipse(WithKwargs(Boxes, BoxA, IdKwargs))
    \/ CallAddText(WithKwargs(Texts, TextA, IdKwargs))
    \/ CallAddLine(WithKwargs(Lines, LineA, IdKwargs))
    \/ CallAddArrow(WithKwargs(Arrows, ArrowA, IdKwargs))
    \/ CallAddCurvedArrow(WithKwargs(Arrows, ArrowA, IdKwargs), {None, Some(1)} \cap OptionalHandles)
    \/ CallConnect({NoKwargs, [id |-> "a"]})
    \/ CallConnectCurved(ControlOffsets, {NoKwargs})

SpecBuild == InitBuild /\ [][NextBuild]_vars

\* Documents of either background colour, built from a few elements, grouped
\* and serialized; the random generator starts in either of two states.
OtherBackground == "#fdf6e3"
InitDoc == InitWith({"#ffffff", OtherBackground}, {0, 7})

NextDoc ==
    \/ CallAddRectangle({ <<BoxA, NoKwargs>> })
    \/ CallAddText({ <<TextA, NoKwargs>> })
    \/ CallAddLine({ <<LineA, NoKwargs>> })
    \/ CallConnect({NoKwargs})
    \/ CallGroup({ <<1>>, <<1, 2>> } \cap HandleLists, {None})
    \/ CallToDict
    \/ CallToJson(BOOLEAN)
    \/ CallSave(BOOLEAN)

SpecDoc == InitDoc /\ [][NextDoc]_vars

\* The builders on one geometry each with every paint override, in and out of
\* range, and on nonsensical geometries.
InitPaint == InitWith({"#ffffff"}, {0})

NextPaint ==
    \/ CallAddRectangle(WithKwargs({BoxA, NegativeBox}, BoxA, PaintKwargs \cup OutOfRangeKwargs))
    \/ CallAddDiamond(WithKwargs({BoxC, NegativeBox}, BoxC, PaintKwargs \cup OutOfRangeKwargs))
    \/ CallAddEllipse(WithKwargs({BoxC, NegativeBox}, BoxC, PaintKwargs \cup OutOfRangeKwargs))
    \/ CallAddText(WithKwargs({TextA, NegativeText}, TextA, PaintKwargs \cup OutOfRangeKwargs))
    \/ CallAddLine(WithKwargs({LineA}, LineA, PaintKwargs \cup OutOfRangeKwargs))
    \/ CallAddArrow(WithKwargs({ArrowA}, ArrowA, PaintKwargs \cup OutOfRangeKwargs))
    \/ CallAddCurvedArrow(WithKwargs({ArrowA}, ArrowA, {[stroke_width |-> 4], [opacity |-> 150]}),
                          {None, Some(1)} \cap OptionalHandles)

SpecPaint == InitPaint /\ [][NextPaint]_vars

\* Documents saved under every outcome of the file operations, some holding a
\* value that cannot be serialized.
InitSave == InitWith({"#ffffff", OtherBackground}, {0})

NextSave ==
    \/ CallAddRectangle({ <<BoxA, NoKwargs>>, <<BoxA, [stroke_color |-> Unserializable]>> })
    \/ CallAddText({ <<TextA, NoKwargs>> })
    \/ CallConnect({NoKwargs})
    \/ CallToJson(BOOLEAN)
    \/ CallSave(BOOLEAN)

SpecSave == InitSave /\ [][NextSave]_vars

\* Curved arrows between elements of the Document, with and without endpoint
\* elements, with the default binding gap and another.
BindingGaps == {1, 5}
InitCurved == InitWith({"#ffffff"}, {0})

NextCurved ==
    \/ CallAddRectangle(WithKwargs({BoxA, BoxB}, BoxA, {[id |-> "a"]}))
    \/ CallAddText({ <<TextA, NoKwargs>> })
    \/ CallAddCurvedArrowWithGaps(WithKwargs({ArrowA}, ArrowA, {[stroke_width |-> 4], [elbowed |-> TRUE]}),
                                  OptionalHandles, BindingGaps)

SpecCurved == InitCurved /\ [][NextCurved]_vars

-----------------------------------------------------------------------------
(* The pipe handler's state machine: one action per command of the tool, and *)
(* the steps the started processes take on their own.                       *)

Commands == { "python3 excalidraw_agent.py", "cat" }

\* The pid arguments of health and cleanup: none, a pid no process can have,
\* 0, and the pids of the process table.
PidArguments == {None} \cup { Some(p) : p \in {-1, 0} \cup Pids }

CallSetup ==
    /\ Called("setup", <<>>)
    /\ setup_pipes
    /\ UNCHANGED <<document_vars, agent_vars>>

\* Popen gives the new process a pid no process has.
CallStart(commands) ==
    \E command \in commands, pid \in Pids :
        /\ command # None => processes[pid].status = "gone"
        /\ Called("start", <<command>>)
        /\ start_command(command, pid)
        /\ UNCHANGED <<document_vars, agent_vars>>

\* Opening a FIFO for writing returns once a process has it open for reading.
CallWrite ==
    /\ input_pipe = "fifo" => \E p \in Pids : IsRunning(p)
    /\ Called("write", <<"some input">>)
    /\ write_to_pipe
    /\ UNCHANGED <<document_vars, agent_vars>>

CallRead ==
    \E output \in {"", "some output"} :
        /\ Called("read", <<>>)
        /\ read_from_pipe(output)
        /\ UNCHANGED <<document_vars, agent_vars>>

CallHealth(pids) ==
    \E pid \in pids :
        /\ Called("health", <<pid>>)
        /\ check_health(pid)
        /\ UNCHANGED <<document_vars, agent_vars>>

CallCleanup(pids) ==
    \E pid \in pids, outcome \in {"running", "gone", "zombie"} :
        /\ Called("cleanup", <<pid>>)
        /\ cleanup(pid, outcome)
        /\ UNCHANGED <<document_vars, agent_vars>>

\* The shell of "command < input_pipe > output_pipe" performs its redirections:
\* it gives up when input_pipe does not exist, and creates output_pipe as a
\* regular file when that path does not exist.
ShellRedirects ==
    \E pid \in Pids :
        /\ processes[pid].status = "starting"
        /\ Called("(shell redirects)", <<pid>>)
        /\ PipeResult(None)
        /\ IF Exists(input_pipe)
           THEN /\ processes' = [processes EXCEPT ![pid].status = "running"]
                /\ output_pipe' = IF Exists(output_pipe) THEN output_pipe ELSE "file"
           ELSE /\ processes' = [processes EXCEPT ![pid] = NoProcess]
                /\ UNCHANGED output_pipe
        /\ UNCHANGED <<input_pipe, process_record, last_started, document_vars, agent_vars>>

\* A process ends: it stays a zombie until its parent collects it.
ProcessExits ==
    \E pid \in Pids, status \in {"zombie", "gone"} :
        /\ IsRunning(pid)
        /\ Called("(process exits)", <<pid>>)
        /\ PipeResult(None)
        /\ processes' = [processes EXCEPT ![pid] =
                             IF status = "gone" THEN NoProcess ELSE [@ EXCEPT !.status = "zombie"]]
        /\ UNCHANGED <<input_pipe, output_pipe, process_record, last_started,
                       document_vars, agent_vars>>

ZombieReaped ==
    \E pid \in Pids :
        /\ processes[pid].status = "zombie"
        /\ Called("(zombie reaped)", <<pid>>)
        /\ PipeResult(None)
        /\ processes' = [processes EXCEPT ![pid] = NoProcess]
        /\ UNCHANGED <<input_pipe, output_pipe, process_record, last_started,
                       document_vars, agent_vars>>

InitPipes == InitWith({"#ffffff"}, {0})

NextPipes ==
    \/ CallSetup
    \/ CallStart({None} \cup { Some(c) : c \in Commands })
    \/ CallWrite
    \/ CallRead
    \/ CallHealth(PidArguments)
    \/ CallCleanup(PidArguments)
    \/ ShellRedirects
    \/ ProcessExits
    \/ ZombieReaped

SpecPipes == InitPipes /\ [][NextPipes]_vars

-----------------------------------------------------------------------------
(* The script generator: generated code is normalised and written; the code *)
(* written may come back as the code of a later generation.                 *)

\* Generated code: every text of at most MaxCodeLen pieces, and some longer.
MaxCodeLen == 3
MaxScriptLen == 8

CodeSamples ==
    { <<"from", " ", "excalidraw", " ", "import", " ", "X">>,
      <<"from", " ", "excalidraw", "_creator", " ", "import", " ", "X">>,
      <<"import", " ", "excalidraw", "_creator">>,
      <<"import", " ", "excalidraw", " ", "X">>,
      <<"X", " ", "import", " ", "excalidraw">> }

CodeInputs == CodeSamples \cup UNION { [1 .. n -> Pieces] : n \in 0 .. MaxCodeLen }

\* Lines 171-180 of generate_python_script: normalise the imports, write the file.
NormaliseAndWrite ==
    /\ Len(python_code) <= MaxScriptLen
    /\ Called("generate_python_script", <<python_code>>)
    /\ python_code' = NormaliseImports(python_code)
    /\ script_file' = Some(python_code')
    /\ returned' = None
    /\ raised' = ""
    /\ UNCHANGED <<document_vars, pipe_vars>>

InitAgent ==
    /\ DocumentInit({"#ffffff"}, {0})
    /\ PipesInit
    /\ AgentInit(CodeInputs)

NextAgent == NormaliseAndWrite

SpecAgent == InitAgent /\ [][NextAgent]_vars

-----------------------------------------------------------------------------
(* Properties *)

LastElement == elements[Len(elements)]
Range(seq) == { seq[i] : i \in DOMAIN seq }

BuilderOps == { "add_rectangle", "add_diamond", "add_ellipse", "add_line",
                "add_text", "add_arrow", "add_curved_arrow" }
ConnectorOps == { "connect_elements_with_arrow", "connect_elements_with_curved_arrow" }

\* The element kind each builder operation creates.
KindOf(op) ==
    CASE op = "add_rectangle" -> "rectangle"
      [] op = "add_diamond"   -> "diamond"
      [] op = "add_ellipse"   -> "ellipse"
      [] op = "add_line"      -> "line"
      [] op = "add_text"      -> "text"
      [] OTHER                -> "arrow"

\* The document structure the last call serialized: what to_dict returned, what
\* the text to_json returned encodes, or what save wrote.  None otherwise.
Serialized ==
    CASE call.op = "to_dict" -> returned
      [] call.op = "to_json" /\ returned # None -> Some(TheValue(returned).json)
      [] call.op = "save" /\ written # None /\ TheValue(written) # <<>> ->
            Some(TheValue(written)[1].json)
      [] OTHER -> None

\* C1: after any sequence of builder operations, with or without id overrides,
\* the ids of the elements of the Document are pairwise distinct.
C1_IdsPairwiseDistinct ==
    \A i, j \in DOMAIN elements : i # j => elements[i].id # elements[j].id

\* C2: connect_elements_with_curved_arrow(A, B) appends exactly one Arrow and
\* returns it; the arrow starts at the midpoint of A's bottom edge, its path is
\* [0,0], the control offset, and B's top-edge midpoint minus the start; its
\* bindings name A with gap 4 and B with gap 9; it is not elbowed and has a
\* roundness descriptor.
C2_CurvedConnectorAppendsArrow ==
    [][ call'.op = "connect_elements_with_curved_arrow" =>
          LET A == elements[call'.args[1]]
              B == elements[call'.args[2]]
              c == call'.args[3]
              startX == RAdd(A.x, RHalf(A.width))
              startY == RAdd(A.y, A.height)
              endX == RAdd(B.x, RHalf(B.width))
              endY == B.y
              arrow == elements'[Len(elements')]
          IN  /\ raised' = ""
              /\ Len(elements') = Len(elements) + 1
              /\ SubSeq(elements', 1, Len(elements)) = elements
              /\ returned' = Some(Len(elements'))
              /\ arrow.type = "arrow"
              /\ arrow.x = startX
              /\ arrow.y = startY
              /\ arrow.points = << <<R(0), R(0)>>, <<R(c[1]), R(c[2])>>,
                                   <<RSub(endX, startX), RSub(endY, startY)>> >>
              /\ arrow.start_binding = Some([elementId |-> A.id, focus |-> Rat(1, 2), gap |-> 4])
              /\ arrow.end_binding = Some([elementId |-> B.id, focus |-> Rat(1, 2), gap |-> 9])
              /\ arrow.elbowed = FALSE
              /\ arrow.roundness # None ]_vars

\* C3: in the serialized form (to_dict, to_json, save) every grouped element
\* carries its group tokens in groupIds, and an element never grouped has the
\* empty list there.
C3_SerializedGroupIds ==
    Serialized # None =>
        \A i \in DOMAIN elements :
            LET element == elements[i]
                written_ids == TheValue(Serialized).elements[i].groupIds
            IN  IF "groupIds" \in DOMAIN element
                THEN Range(element.groupIds) \subseteq Range(written_ids)
                ELSE written_ids = <<>>

\* C4: a Line stores its two endpoints relative to its stored (x, y), in every
\* relative order of the endpoints, so no point coordinate is negative.
C4_LinePointsRelative ==
    call.op = "add_line" =>
        LET l == call.args[1]
            line == LastElement
        IN  /\ line.points = << <<RSub(R(l[1]), line.x), RSub(R(l[2]), line.y)>>,
                                <<RSub(R(l[3]), line.x), RSub(R(l[4]), line.y)>> >>
            /\ \A i \in DOMAIN line.points :
                   RLe(R(0), line.points[i][1]) /\ RLe(R(0), line.points[i][2])

\* The fields the data model enumerates: the common ones, and each variant's.
BaseFields ==
    { "id", "type", "x", "y", "width", "height", "angle", "strokeColor", "backgroundColor",
      "fillStyle", "strokeWidth", "strokeStyle", "roughness", "opacity", "seed",
      "versionNonce", "version", "updated", "isDeleted", "locked", "link",
      "boundElements", "groupIds", "frameId" }

VariantFields(kind) ==
    CASE kind \in {"rectangle", "diamond", "ellipse"} -> { "roundness" }
      [] kind = "line" -> { "points" }
      [] kind = "arrow" -> { "points", "startBinding", "endBinding", "startArrowhead",
                             "endArrowhead", "elbowed", "fixedSegments", "startIsSpecial",
                             "endIsSpecial" }
      [] kind = "text" -> { "text", "fontFamily", "fontSize", "textAlign", "verticalAlign",
                            "baseline" }

\* The keys written for the elements, as the last call serialized them.
SerializedKeys(i) == DOMAIN TheValue(Serialized).elements[i]

\* C5 as stated: the keys written for an element are exactly the fields the data
\* model enumerates for its variant (an arrow's roundness descriptor, which the
\* data model calls optional, may be there or not).
C5_KeysAreEnumeratedFields ==
    Serialized # None =>
        \A i \in DOMAIN elements :
            SerializedKeys(i) \ (IF elements[i].type = "arrow" THEN {"roundness"} ELSE {})
                = BaseFields \cup VariantFields(elements[i].type)

\* C5, amended: the keys written are the enumerated fields, and in addition
\* lastCommittedPoint for a line and for an arrow; an arrow always has the
\* roundness key.
C5_KeysAreEnumeratedFieldsPlusLastCommittedPoint ==
    Serialized # None =>
        \A i \in DOMAIN elements :
            SerializedKeys(i)
                = BaseFields \cup VariantFields(elements[i].type)
                  \cup (IF elements[i].type \in {"line", "arrow"} THEN {"lastCommittedPoint"} ELSE {})
                  \cup (IF elements[i].type = "arrow" THEN {"roundness"} ELSE {})

C5_Witness ==
    /\ call.op = "to_dict"
    /\ \E i, j \in DOMAIN elements : elements[i].type = "line" /\ elements[j].type = "arrow"

\* C6: each builder operation makes the element list one longer and returns the
\* element now last in it, whose kind is the operation's.
C6_BuilderAppendsAndReturnsLast ==
    [][ call'.op \in BuilderOps =>
          /\ raised' = ""
          /\ Len(elements') = Len(elements) + 1
          /\ returned' = Some(Len(elements'))
          /\ elements'[TheValue(returned')].type = KindOf(call'.op) ]_vars

C6_Witness ==
    /\ call.op = "add_text"
    /\ Len(elements) = 2
    /\ returned = Some(2)
    /\ elements[1].type = "rectangle"
    /\ elements[2].type = "text"

\* C7: over every operation the element list of the earlier state is a prefix of
\* the later one: the same objects at the same positions.
C7_ElementListOnlyGrows ==
    [][ /\ Len(elements') >= Len(elements)
        /\ \A i \in DOMAIN elements : elements'[i].oid = elements[i].oid ]_vars

C7_Witness ==
    /\ call.op = "save"
    /\ Len(elements) = 3
    /\ \E i \in DOMAIN elements : "groupIds" \in DOMAIN elements[i]

\* C8: connect_elements_with_arrow(A, B) creates an Arrow at the midpoint of A's
\* right edge whose points are [0,0], ((B.x - startX)/2, 0) and the midpoint of
\* B's left edge minus the start; for A = (0,0,100,50), B = (200,0,100,50) the
\* start is (100,25) and the path [[0,0],[50,0],[100,0]].
C8_StraightConnectorGeometry ==
    call.op = "connect_elements_with_arrow" =>
        LET A == elements[call.args[1]]
            B == elements[call.args[2]]
            arrow == LastElement
            startX == RAdd(A.x, A.width)
            startY == RAdd(A.y, RHalf(A.height))
            endY == RAdd(B.y, RHalf(B.height))
        IN  /\ arrow.type = "arrow"
            /\ arrow.x = startX
            /\ arrow.y = startY
            /\ arrow.points = << <<R(0), R(0)>>,
                                 <<RHalf(RSub(B.x, startX)), R(0)>>,
                                 <<RSub(B.x, startX), RSub(endY, startY)>> >>
            /\ ( /\ <<A.x, A.y, A.width, A.height>> = <<R(0), R(0), R(100), R(50)>>
                 /\ <<B.x, B.y, B.width, B.height>> = <<R(200), R(0), R(100), R(50)>>
                 => /\ <<arrow.x, arrow.y>> = <<R(100), R(25)>>
                    /\ arrow.points = <<Pt(0, 0), Pt(50, 0), Pt(100, 0)>> )

C8_Witness ==
    /\ call.op = "connect_elements_with_arrow"
    /\ LET A == elements[call.args[1]]
           B == elements[call.args[2]]
       IN  /\ <<A.x, A.y, A.width, A.height>> = <<R(0), R(0), R(100), R(50)>>
           /\ <<B.x, B.y, B.width, B.height>> = <<R(200), R(0), R(100), R(50)>>
    /\ LastElement.points = <<Pt(0, 0), Pt(50, 0), Pt(100, 0)>>

\* C9: the Arrow made by connect_elements_with_arrow(A, B) carries the bindings
\* {elementId: A.id, focus: 0.5, gap: 1} at its start and {elementId: B.id,
\* focus: 0.5, gap: 1} at its end.
C9_StraightConnectorBindings ==
    call.op = "connect_elements_with_arrow" =>
        LET A == elements[call.args[1]]
            B == elements[call.args[2]]
            arrow == LastElement
        IN  /\ arrow.type = "arrow"
            /\ arrow.start_binding = Some([elementId |-> A.id, focus |-> Rat(1, 2), gap |-> 1])
            /\ arrow.end_binding = Some([elementId |-> B.id, focus |-> Rat(1, 2), gap |-> 1])
            /\ to_dict(arrow).startBinding = arrow.start_binding
            /\ to_dict(arrow).endBinding = arrow.end_binding

C9_Witness ==
    /\ call.op = "connect_elements_with_arrow"
    /\ elements[call.args[1]].id # elements[call.args[2]].id
    /\ LastElement.start_binding # LastElement.end_binding
    /\ LastElement.end_binding # None

\* C10: a connector operation leaves every field of the elements already in the
\* Document unchanged and appends one new Arrow.
C10_ConnectorOnlyAppendsArrow ==
    [][ call'.op \in ConnectorOps =>
          /\ Len(elements') = Len(elements) + 1
          /\ SubSeq(elements', 1, Len(elements)) = elements
          /\ elements'[Len(elements')].type = "arrow" ]_vars

\* The group tokens an element carries (none while it has no groupIds attribute).
GroupIdsOf(element) == IF "groupIds" \in DOMAIN element THEN element.groupIds ELSE <<>>

\* C11: group_elements with no token generates a fresh one, appends that one
\* token to the groupIds of every element given and returns it, and the token
\* differs from every element id of the Document and from every token already
\* there; with a token supplied, that token is the one assigned and returned.
\* Elements not given keep their groupIds.
C11_GroupAssignsOneToken ==
    [][ call'.op = "group_elements" =>
          LET handles == call'.args[1]
              group_id == call'.args[2]
          IN  /\ raised' = ""
              /\ returned' # None
              /\ LET token == TheValue(returned')
                 IN  /\ \A h \in DOMAIN elements :
                            IF h \in Range(handles)
                            THEN /\ "groupIds" \in DOMAIN elements'[h]
                                 /\ Range(elements'[h].groupIds)
                                        = Range(GroupIdsOf(elements[h])) \cup {token}
                                 /\ elements'[h].groupIds[Len(elements'[h].groupIds)] = token
                            ELSE elements'[h] = elements[h]
                     /\ group_id = None =>
                            /\ \A i \in DOMAIN elements' : elements'[i].id # token
                            /\ \A i \in DOMAIN elements : token \notin Range(GroupIdsOf(elements[i]))
                     /\ group_id # None => token = TheValue(group_id) ]_vars

C11_Witness ==
    /\ call.op = "group_elements"
    /\ call.args = << <<1, 2>>, None >>
    /\ returned # None
    /\ elements[1].groupIds = <<TheValue(returned)>>
    /\ elements[2].groupIds = <<TheValue(returned)>>
    /\ elements[1].id # elements[2].id

SerializeOps == { "to_dict", "to_json", "save" }

\* C12: a serialization (to_dict, to_json, save) changes nothing of the Document
\* and draws no random value, and two serializations with no other operation in
\* between give the same structure in every field, seed, versionNonce and
\* updated included.
C12_SerializeTwiceIdentical ==
    [][ call'.op \in SerializeOps =>
          /\ elements' = elements
          /\ background_color' = background_color
          /\ rng' = rng
          /\ uuid_calls' = uuid_calls
          /\ (Serialized # None /\ Serialized' # None) => Serialized' = Serialized
          /\ Serialized' # None =>
                \A i \in DOMAIN elements :
                    LET out == TheValue(Serialized').elements[i]
                    IN  /\ out.seed = elements[i].seed
                        /\ out.versionNonce = elements[i].version_nonce
                        /\ out.updated = elements[i].updated ]_vars

C12_Witness ==
    /\ call.op = "to_json"
    /\ Serialized # None
    /\ Len(elements) = 2
    /\ elements[1].seed # elements[2].seed
    /\ TheValue(Serialized).elements[2].seed = elements[2].seed
    /\ rng = RngAfterInit(RngAfterInit(7))

\* C13: the serialized structure has exactly the top-level keys type, version,
\* source, elements, appState and files, with type "excalidraw", version 2, the
\* fixed source string, appState {gridSize 20, gridStep 5, gridModeEnabled
\* false, viewBackgroundColor the Document's background colour} and files {};
\* elements has one entry per element of the Document, in document order.
C13_TopLevelShape ==
    Serialized # None =>
        LET d == TheValue(Serialized)
        IN  /\ DOMAIN d = { "type", "version", "source", "elements", "appState", "files" }
            /\ d.type = "excalidraw"
            /\ d.version = 2
            /\ d.source = "https://excalidraw.com"
            /\ d.appState = [ gridSize            |-> 20,
                              gridStep            |-> 5,
                              gridModeEnabled     |-> FALSE,
                              viewBackgroundColor |-> background_color ]
            /\ d.files = <<>>
            /\ Len(d.elements) = Len(elements)
            /\ \A i \in DOMAIN elements :
                   /\ d.elements[i].id = elements[i].id
                   /\ d.elements[i] = to_dict(elements[i])

C13_Witness ==
    /\ call.op = "save"
    /\ Serialized # None
    /\ background_color = OtherBackground
    /\ Len(elements) = 3
    /\ TheValue(Serialized).appState.viewBackgroundColor = OtherBackground
    /\ <<elements[1].type, elements[2].type, elements[3].type>> = <<"text", "rectangle", "arrow">>
    /\ TheValue(Serialized).elements[3].type = "arrow"

\* The roundness code fixed for each box variant.
RoundnessCode(kind) == IF kind = "rectangle" THEN 3 ELSE 2

\* C14: every Rectangle has the roundness descriptor {type: 3} and every Diamond
\* and Ellipse the descriptor {type: 2}, on the element and in its serialized
\* form; the descriptor is never absent.
C14_RoundnessCodes ==
    \A i \in DOMAIN elements :
        LET element == elements[i]
        IN  element.type \in {"rectangle", "diamond", "ellipse"} =>
                /\ "roundness" \in DOMAIN element
                /\ element.roundness = Some([type |-> RoundnessCode(element.type)])
                /\ "roundness" \in DOMAIN to_dict(element)
                /\ to_dict(element).roundness = Some([type |-> RoundnessCode(element.type)])
                /\ Serialized # None =>
                       /\ "roundness" \in DOMAIN TheValue(Serialized).elements[i]
                       /\ TheValue(Serialized).elements[i].roundness
                              = Some([type |-> RoundnessCode(element.type)])

C14_Witness ==
    /\ call.op = "to_json"
    /\ Len(elements) = 3
    /\ elements[1].type = "diamond"
    /\ elements[2].type = "rectangle"
    /\ "groupIds" \in DOMAIN elements[1]
    /\ TheValue(Serialized).elements[1].roundness = Some([type |-> 2])
    /\ TheValue(Serialized).elements[2].roundness = Some([type |-> 3])

\* C15: a Line built from (x1,y1),(x2,y2) stores the bounding box of the two
\* endpoints: x = min(x1,x2), y = min(y1,y2), width = |x2-x1|, height = |y2-y1|,
\* so width and height are never negative.
C15_LineBoundingBox ==
    call.op = "add_line" =>
        LET l == call.args[1]
            line == LastElement
        IN  /\ line.type = "line"
            /\ line.x = R(IF l[1] <= l[3] THEN l[1] ELSE l[3])
            /\ line.y = R(IF l[2] <= l[4] THEN l[2] ELSE l[4])
            /\ line.width = R(Abs(l[3] - l[1]))
            /\ line.height = R(Abs(l[4] - l[2]))
            /\ line.width.n >= 0
            /\ line.height.n >= 0

C15_Witness ==
    /\ call.op = "add_line"
    /\ call.args[1] = <<50, 10, 10, 40>>
    /\ <<LastElement.x, LastElement.y, LastElement.width, LastElement.height>>
          = <<R(10), R(10), R(40), R(30)>>

C17_ArrowSizeIsMaxOfPoints ==
    \A i \in DOMAIN elements :
        LET arrow == elements[i]
        IN  (arrow.type = "arrow" /\ Len(arrow.points) >= 2) =>
                /\ \E p \in DOMAIN arrow.points : arrow.points[p][1] = arrow.width
                /\ \A p \in DOMAIN arrow.points : RLe(arrow.points[p][1], arrow.width)
                /\ \E p \in DOMAIN arrow.points : arrow.points[p][2] = arrow.height
                /\ \A p \in DOMAIN arrow.points : RLe(arrow.points[p][2], arrow.height)

C17_Witness ==
    \E i, j \in DOMAIN elements :
        /\ elements[i].type = "arrow"
        /\ elements[i].points = <<Pt(-10, -5), Pt(-30, -20)>>
        /\ <<elements[i].width, elements[i].height>> = <<R(-10), R(-5)>>
        /\ elements[j].type = "arrow"
        /\ elements[j].points = <<Pt(0, 0), Pt(-30, 20)>>
        /\ <<elements[j].width, elements[j].height>> = <<R(0), R(20)>>

\* The keyword arguments of a builder call.
KwargsOf(c) == IF c.op = "add_curved_arrow" THEN c.args[4] ELSE c.args[2]

\* The paint and state defaults, by attribute, and each attribute's serialized key.
PaintDefaults ==
    [ stroke_color     |-> "#1e1e1e",
      background_color |-> "#ffffff",
      fill_style       |-> "solid",
      stroke_width     |-> 2,
      stroke_style     |-> "solid",
      roughness        |-> 1,
      opacity          |-> 100,
      angle            |-> R(0) ]

SerializedName ==
    [ stroke_color     |-> "strokeColor",
      background_color |-> "backgroundColor",
      fill_style       |-> "fillStyle",
      stroke_width     |-> "strokeWidth",
      stroke_style     |-> "strokeStyle",
      roughness        |-> "roughness",
      opacity          |-> "opacity",
      angle            |-> "angle" ]

\* C18: an element of any variant built with no paint override has strokeColor
\* "#1e1e1e", backgroundColor "#ffffff", fillStyle "solid", strokeWidth 2,
\* strokeStyle "solid", roughness 1, opacity 100 and angle 0; an override
\* changes its own field only.
C18_PaintDefaults ==
    (call.op \in BuilderOps /\ raised = "") =>
        LET kwargs == KwargsOf(call)
            element == LastElement
        IN  \A f \in DOMAIN PaintDefaults :
                LET expected == IF f \in DOMAIN kwargs THEN kwargs[f] ELSE PaintDefaults[f]
                IN  /\ element[f] = expected
                    /\ to_dict(element)[SerializedName[f]] = expected

C18_Witness ==
    /\ call.op = "add_ellipse"
    /\ KwargsOf(call) = [stroke_width |-> 4]
    /\ Len(elements) = 2
    /\ elements[1].type = "text"
    /\ \A f \in DOMAIN PaintDefaults : elements[1][f] = PaintDefaults[f]
    /\ elements[2].stroke_width = 4
    /\ \A f \in DOMAIN PaintDefaults \ {"stroke_width"} : elements[2][f] = PaintDefaults[f]

\* C19: a builder given out-of-range or nonsensical numbers (opacity 150,
\* roughness 9, negative width or height) does not raise: the element is
\* created and appended and stores the numbers as supplied.
C19_NoValidation ==
    [][ call'.op \in BuilderOps =>
          LET kwargs == KwargsOf(call')
              g == call'.args[1]
              element == elements'[Len(elements')]
          IN  /\ raised' = ""
              /\ Len(elements') = Len(elements) + 1
              /\ returned' = Some(Len(elements'))
              /\ \A f \in DOMAIN kwargs : element[f] = kwargs[f]
              /\ call'.op \in {"add_rectangle", "add_diamond", "add_ellipse"} =>
                     <<element.x, element.y, element.width, element.height>>
                        = <<R(g[1]), R(g[2]), R(g[3]), R(g[4])>>
              /\ call'.op = "add_text" => element.font_size = g[4] ]_vars

C19_Witness ==
    /\ Len(elements) = 3
    /\ elements[1].type = "ellipse"
    /\ elements[1].roughness = 9
    /\ elements[2].type = "rectangle"
    /\ <<elements[2].width, elements[2].height>> = <<R(-10), R(-5)>>
    /\ elements[3].type = "arrow"
    /\ elements[3].opacity = 150
    /\ raised = ""

\* C20: every element's opacity lies in [0,100] and every element's roughness
\* in [0,2].
C20_OpacityAndRoughnessInRange ==
    \A i \in DOMAIN elements :
        /\ 0 <= elements[i].opacity /\ elements[i].opacity <= 100
        /\ 0 <= elements[i].roughness /\ elements[i].roughness <= 2

\* The identity and geometry an element is given at construction.
Identity(element) ==
    <<element.oid, element.id, element.type, element.x, element.y, element.width, element.height,
      element.seed, element.version_nonce, element.updated>>

\* C21: no operation of the Document (add*, connect*, group_elements, to_dict,
\* to_json, save) changes the id, kind, x, y, width, height, seed, versionNonce
\* or updated of an element already created.
C21_IdentityAndGeometryFixed ==
    [][ \A i \in DOMAIN elements :
            /\ i \in DOMAIN elements'
            /\ Identity(elements'[i]) = Identity(elements[i]) ]_vars

C21_Witness ==
    /\ call.op = "connect_elements_with_arrow"
    /\ Len(elements) = 3
    /\ "groupIds" \in DOMAIN elements[1]
    /\ elements[1].id = uuid4(1)
    /\ elements[1].seed = Draws(0).seed
    /\ elements[1].version_nonce = Draws(0).version_nonce
    /\ elements[1].updated = Draws(0).updated
    /\ elements[3].start_binding # None

\* C22: save releases the file handle it acquired within the same call on
\* every path out: after save returned or raised (open failed, serialization
\* failed after the open, the write failed) no file opened by save is open.
C22_NoHandleLeftOpen ==
    /\ open_files = 0
    /\ call.op = "save" => open_calls = 1

C22_Witness ==
    /\ call.op = "save"
    /\ raised = "TypeError"
    /\ written = Some(<<>>)
    /\ open_calls = 1
    /\ open_files = 0

\* C23: when the output file cannot be opened or written, save leaves by the
\* I/O error, having called open() once and written nothing, and the element
\* list and the background colour are as before the call.
C23_SaveSurfacesIOError ==
    [][ call'.op = "save" =>
          /\ elements' = elements
          /\ background_color' = background_color
          /\ open_calls' = 1
          /\ returned' = None
          /\ written' = None => raised' = "OSError"
          /\ (written' = Some(<<>>) /\ ~JsonFails(elements)) => raised' = "OSError"
          /\ raised' = "" =>
                written' = Some(<<ExcalidrawCreator_to_json(elements, background_color,
                                                            call'.args[1])>>) ]_vars

C23_Witness ==
    /\ call.op = "save"
    /\ raised = "OSError"
    /\ written = None
    /\ Len(elements) = 2
    /\ background_color = OtherBackground
    /\ ~JsonFails(elements)

\* C26: add_curved_arrow gives the Arrow a start (end) binding only when a
\* start (end) element is supplied, with that element's id, focus 0.5 and the
\* gap given for that end; with no endpoint elements both bindings are absent;
\* the appended Arrow has elbowed false and roundness {type: 2}.
C26_CurvedArrowBindings ==
    (call.op = "add_curved_arrow" /\ raised = "") =>
        LET start_element == call.args[2]
            end_element == call.args[3]
            start_gap == IF Len(call.args) >= 5 THEN call.args[5] ELSE 1
            end_gap == IF Len(call.args) >= 6 THEN call.args[6] ELSE 1
            arrow == LastElement
            Binding(element, gap) ==
                IF element = None
                THEN None
                ELSE Some([elementId |-> elements[TheValue(element)].id,
                           focus |-> Rat(1, 2), gap |-> gap])
        IN  /\ arrow.type = "arrow"
            /\ arrow.start_binding = Binding(start_element, start_gap)
            /\ arrow.end_binding = Binding(end_element, end_gap)
            /\ arrow.elbowed = FALSE
            /\ arrow.roundness = Some([type |-> 2])
            /\ to_dict(arrow).startBinding = arrow.start_binding
            /\ to_dict(arrow).endBinding = arrow.end_binding
            /\ to_dict(arrow).elbowed = FALSE
            /\ to_dict(arrow).roundness = Some([type |-> 2])

C26_Witness ==
    /\ call.op = "add_curved_arrow"
    /\ raised = ""
    /\ Len(elements) = 3
    /\ elements[2].type = "arrow"
    /\ elements[2].start_binding = None
    /\ elements[2].end_binding = None
    /\ elements[3].start_binding = Some([elementId |-> elements[1].id, focus |-> Rat(1, 2), gap |-> 5])
    /\ elements[3].end_binding = None
    /\ call.args[6] = 1

\* C27: every arrow binding names, by elementId, an element that comes before
\* the arrow in the element list, on the Arrow and in its serialized form.
C27_BindingsReferToEarlierElements ==
    \A i \in DOMAIN elements :
        elements[i].type = "arrow" =>
            \A binding \in elements[i].start_binding \cup elements[i].end_binding
                          \cup to_dict(elements[i]).startBinding
                          \cup to_dict(elements[i]).endBinding :
                \E j \in 1 .. (i - 1) : elements[j].id = binding.elementId

C27_Witness ==
    /\ Len(elements) = 3
    /\ elements[3].type = "arrow"
    /\ elements[1].id # elements[2].id
    /\ elements[3].start_binding # None
    /\ elements[3].end_binding # None
    /\ TheValue(elements[3].start_binding).elementId = elements[2].id
    /\ TheValue(elements[3].end_binding).elementId = elements[1].id
    /\ elements[3].elbowed = TRUE

\* A process with this pid is running and is not a zombie.
RunningNotZombie(pid) == pid \in Pids /\ processes[pid].status \in {"starting", "running"}

\* The pid a health or cleanup call knows of: the one given, else the one stored
\* in the process record, else none.
KnownPid(given, record) ==
    IF given # None THEN given
    ELSE IF record # None THEN Some(TheValue(record).pid)
    ELSE None

\* C24: check_health reports "healthy" exactly when input_pipe and output_pipe
\* both exist and either no pid is known or the process with that pid is
\* running and not a zombie; in every other case it reports "unhealthy".
C24_HealthStatus ==
    call.op = "health" =>
        LET known == KnownPid(call.args[1], process_record)
            healthy == /\ Exists(input_pipe)
                       /\ Exists(output_pipe)
                       /\ (known = None \/ RunningNotZombie(TheValue(known)))
        IN  /\ raised = ""
            /\ returned # None
            /\ TheValue(returned).status = IF healthy THEN "healthy" ELSE "unhealthy"

\* C25: when cleanup returns, input_pipe, output_pipe and the process record
\* no longer exist, whether or not the process ended; a health check that
\* follows reports "unhealthy", and a second cleanup completes without error.
C25_CleanupRemovesEverything ==
    [][ /\ call'.op = "cleanup" =>
              /\ raised' = ""
              /\ input_pipe' = "absent"
              /\ output_pipe' = "absent"
              /\ process_record' = None
        /\ (call.op = "cleanup" /\ call'.op = "health") =>
              /\ raised' = ""
              /\ returned' # None
              /\ TheValue(returned').status = "unhealthy" ]_vars

\* C28: the process record names the command started last: start overwrites
\* it with the new pid; health and cleanup without a pid argument act on the
\* stored pid only; with a pid argument they act on that pid, not the stored.
C28_RecordIsLastStarted ==
    [][ /\ (call'.op = "start" /\ raised' = "") =>
              /\ process_record' = Some([ pid     |-> TheValue(returned'),
                                          command |-> TheValue(call'.args[1]) ])
              /\ last_started' = returned'
        /\ process_record' # None => Some(TheValue(process_record').pid) = last_started'
        /\ (call'.op = "health" /\ raised' = "") =>
              LET known == KnownPid(call'.args[1], process_record)
                  status == TheValue(returned')
              IN  /\ status.process = (known # None /\ RunningNotZombie(TheValue(known)))
                  /\ "pid" \in DOMAIN status => Some(status.pid) = known
                  /\ "command" \in DOMAIN status =>
                         (call'.args[1] = None /\ status.command = TheValue(process_record).command)
        /\ call'.op = "cleanup" =>
              LET known == KnownPid(call'.args[1], process_record)
              IN  (known = None \/ TheValue(known) >= 0) =>
                      \A q \in Pids : Some(q) # known => processes'[q] = processes[q] ]_vars

C28_Witness ==
    /\ call.op = "cleanup"
    /\ call.args[1] = None
    /\ last_started = Some(2)
    /\ processes[1].status = "running"
    /\ processes[1].cmdline = "cat < input_pipe > output_pipe"
    /\ processes[2].status = "gone"
    /\ process_record = None

\* Code whose every mention of excalidraw is a mention of excalidraw_creator.
ImportsCreatorOnly(code) ==
    \A i \in DOMAIN code :
        code[i] = "excalidraw" => (i < Len(code) /\ code[i + 1] = "_creator")

\* C29: the import normalisation leaves code that imports excalidraw_creator
\* unchanged, rewrites an import of excalidraw into one of excalidraw_creator,
\* and applied twice gives the same text as applied once.
C29_ImportNormalisationIdempotent ==
    LET once == NormaliseImports(python_code)
        twice == NormaliseImports(once)
    IN  /\ twice = once
        /\ ImportsCreatorOnly(python_code) => once = python_code
        /\ python_code = <<"import", " ", "excalidraw", " ", "X">> =>
               once = <<"import", " ", "excalidraw", "_creator", " ", "X">>
        /\ python_code = <<"from", " ", "excalidraw", " ", "import", " ", "X">> =>
               once = <<"from", " ", "excalidraw", "_creator", " ", "import", " ", "X">>
        /\ script_file # None => NormaliseImports(TheValue(script_file)) = TheValue(script_file)

====
